---- MODULE Spec2Model ----
(***************************************************************************)
(* The api-member directive of template/_extensions/apimember.py.          *)
(*                                                                         *)
(* A text is a tuple of one-character strings (<<"f","o","o">> is 'foo',   *)
(* <<>> is ''), so that int() can read the depth option character by       *)
(* character.  CSS class names are the literals of the source and stay     *)
(* TLA+ strings.  A value that Python may or may not have is a tuple of    *)
(* zero or one element: <<>> is None / absent, <<v>> is v.                 *)
(*                                                                         *)
(* A docutils node is a record                                             *)
(*   [tag, classes, ids, internal, refid, text, children]                  *)
(* where refid is <<>> (no such attribute) or <<text>>, internal is the    *)
(* attribute of that name (FALSE when not set), and text is the data of a  *)
(* Text node (<<>> for every other node).                                  *)
(***************************************************************************)
EXTENDS Integers, Sequences, FiniteSets, TLC

VARIABLES options, content, pc, nodes_to_return, exception, issued,
          invocations, prev

vars == <<options, content, pc, nodes_to_return, exception, issued,
          invocations, prev>>

----------------------------------------------------------------------------
(* Bounds of the model *)

\* longest text given as the depth option
MaxDepthLen == 2
\* most lines of body content
MaxContentLen == 2
\* occurrences of the same api-member block in the document
MaxInvocations == 2

----------------------------------------------------------------------------
(* Texts used as inputs *)

foo == <<"f", "o", "o">>
string == <<"s", "t", "r", "i", "n", "g">>
optional == <<"o", "p", "t">>
anchor == <<"a", "-", "f">>
display == <<"a", ".", "f">>
bodyline == <<"t", "x", "t">>
blank == <<>>

DepthChars == {"-", "0", "1", "2", "x"}

RECURSIVE TextsOfLen(_, _)
TextsOfLen(chars, n) ==
    IF n = 0 THEN {<<>>}
    ELSE {Append(t, c) : t \in TextsOfLen(chars, n - 1), c \in chars}

DepthTexts == UNION {TextsOfLen(DepthChars, n) : n \in 1..MaxDepthLen}

\* What the host hands to an option's conversion function: <<>> when the
\* option is not in the block, <<None>> when it is given without a value,
\* <<Some(text)>> when it is given with a (non-empty) value.
None == <<>>
Some(t) == <<t>>
Given(texts) == {<<>>, <<None>>} \cup {<<Some(t)>> : t \in texts}

RawOptions ==
    [type : {<<>>, <<Some(string)>>},
     name : Given({foo}),
     annotation : {<<>>, <<Some(optional)>>},
     refid : Given({anchor}),
     refname : Given({display}),
     depth : Given(DepthTexts)]

\* The directive's content: the host trims leading and trailing blank lines.
Lines == {blank, bodyline}
Contents ==
    {c \in UNION {[1..n -> Lines] : n \in 0..MaxContentLen} :
        c # <<>> => (c[1] # blank /\ c[Len(c)] # blank)}

----------------------------------------------------------------------------
(* Option conversion *)

OptionNames == {"type", "name", "annotation", "refid", "refname", "depth"}

\* directives.unchanged: '' for a missing argument, else the argument as is.
unchanged(argument) == IF argument = None THEN <<>> ELSE argument[1]

\* option_spec applied by the host: every option is converted by
\* directives.unchanged, which accepts any argument.
option_spec(raw) ==
    [k \in {o \in OptionNames : raw[o] # <<>>} |-> unchanged(raw[k][1])]

----------------------------------------------------------------------------
(* int() and str() *)

Digits == {"0", "1", "2", "3", "4", "5", "6", "7", "8", "9"}

DigitVal(c) ==
    CASE c = "0" -> 0 [] c = "1" -> 1 [] c = "2" -> 2 [] c = "3" -> 3
      [] c = "4" -> 4 [] c = "5" -> 5 [] c = "6" -> 6 [] c = "7" -> 7
      [] c = "8" -> 8 [] c = "9" -> 9

DigitChar(d) ==
    CASE d = 0 -> "0" [] d = 1 -> "1" [] d = 2 -> "2" [] d = 3 -> "3"
      [] d = 4 -> "4" [] d = 5 -> "5" [] d = 6 -> "6" [] d = 7 -> "7"
      [] d = 8 -> "8" [] d = 9 -> "9"

RECURSIVE DigitsValue(_)
DigitsValue(s) ==
    IF s = <<>> THEN 0
    ELSE DigitsValue(SubSeq(s, 1, Len(s) - 1)) * 10 + DigitVal(s[Len(s)])

\* int(text): <<n>> for an optional sign followed by decimal digits,
\* <<>> when Python raises ValueError.
int(s) ==
    LET signed == s # <<>> /\ s[1] \in {"-", "+"}
        digits == IF signed THEN Tail(s) ELSE s
    IN  IF digits = <<>> \/ \E i \in DOMAIN digits : digits[i] \notin Digits
        THEN <<>>
        ELSE IF signed /\ s[1] = "-"
             THEN <<0 - DigitsValue(digits)>>
             ELSE <<DigitsValue(digits)>>

\* The formatting of an int in an f-string.
RECURSIVE str(_)
str(n) ==
    IF n < 0 THEN "-" \o str(0 - n)
    ELSE IF n < 10 THEN DigitChar(n)
    ELSE str(n \div 10) \o DigitChar(n % 10)

\* int(self.options.get('depth', 0))
DepthOf(opts) ==
    IF "depth" \in DOMAIN opts THEN int(opts["depth"]) ELSE <<0>>

----------------------------------------------------------------------------
(* Nodes *)

Node(tag, classes, children) ==
    [tag |-> tag, classes |-> classes, ids |-> <<>>, internal |-> FALSE,
     refid |-> <<>>, text |-> <<>>, children |-> children]

Text(data) ==
    [tag |-> "#text", classes |-> <<>>, ids |-> <<>>, internal |-> FALSE,
     refid |-> <<>>, text |-> data, children |-> <<>>]

\* TextElement(text=...): a Text child unless the text is ''.
TextElement(tag, text) ==
    Node(tag, <<>>, IF text = <<>> THEN <<>> ELSE <<Text(text)>>)

RECURSIVE astext(_)
RECURSIVE ConcatText(_)
ConcatText(nodes) ==
    IF nodes = <<>> THEN <<>>
    ELSE astext(Head(nodes)) \o ConcatText(Tail(nodes))
astext(node) ==
    IF node.tag = "#text" THEN node.text ELSE ConcatText(node.children)

RECURSIVE JoinLines(_)
JoinLines(lines) ==
    IF Len(lines) = 1 THEN lines[1]
    ELSE lines[1] \o <<"\n">> \o JoinLines(Tail(lines))

\* One block of consecutive non-blank lines: a lone '-' is an empty bullet
\* list, anything else a paragraph.
Block(lines) ==
    IF lines = << <<"-">> >>
    THEN Node("bullet_list", <<>>, <<Node("list_item", <<>>, <<>>)>>)
    ELSE TextElement("paragraph", JoinLines(lines))

\* The host's nested parse of a list of lines into body nodes.
RECURSIVE Blocks(_, _)
Blocks(lines, cur) ==
    LET flush == IF cur = <<>> THEN <<>> ELSE <<Block(cur)>>
    IN  IF lines = <<>> THEN flush
        ELSE IF Head(lines) = blank
             THEN flush \o Blocks(Tail(lines), <<>>)
             ELSE Blocks(Tail(lines), Append(cur, Head(lines)))

\* nested_parse_with_titles(self.state, rst, node): the children of node.
nested_parse_with_titles(lines) == Blocks(lines, <<>>)

\* self.state.nested_parse(self.content, self.content_offset, node)
nested_parse(lines) == Blocks(lines, <<>>)

----------------------------------------------------------------------------
(* The directive *)

make_div_node_unparsed(classname, lines) ==
    <<Node("container", <<classname>>, <<>>)>>

make_div_node(classname, lines) ==
    <<Node("container", <<classname>>, nested_parse_with_titles(lines))>>

rubric_text_name_first(opts) ==
    IF "name" \in DOMAIN opts THEN opts["name"]
    ELSE IF "refname" \in DOMAIN opts THEN opts["refname"]
    ELSE opts["refid"]

\* self.options.get('refname', self.options.get('name', self.options['refid']))
rubric_text(opts) ==
    IF "refname" \in DOMAIN opts THEN opts["refname"]
    ELSE IF "name" \in DOMAIN opts THEN opts["name"]
    ELSE opts["refid"]

\* The tokens uuid.uuid4() can return: 122 random bits, modelled as any
\* token the process-wide random source has not produced before.
UuidPool == 1..MaxInvocations

uuid4_fixed(used) == {1}

uuid4(used) == UuidPool \ used

rubric(opts, u) ==
    [TextElement("rubric", rubric_text(opts)) EXCEPT
        !.ids = << <<"api-member-", u>> >>,
        !.classes = Append(@, "api-member-rubric-hidden")]

apiMemberNode_classes_even_hidden(depth) ==
    <<"api-member-node">>
    \o (IF depth > 0 THEN <<"api-member-depth-" \o str(depth)>> ELSE <<>>)
    \o (IF depth % 2 = 0 THEN <<"api-member-hide-bullet-point">> ELSE <<>>)

apiMemberNode_classes_from_zero(depth) ==
    <<"api-member-node">>
    \o (IF depth >= 0 THEN <<"api-member-depth-" \o str(depth)>> ELSE <<>>)
    \o (IF depth % 2 = 1 THEN <<"api-member-hide-bullet-point">> ELSE <<>>)

\* Python's % with a positive modulus is never negative, as in TLA+.
apiMemberNode_classes(depth) ==
    <<"api-member-node">>
    \o (IF depth > 0 THEN <<"api-member-depth-" \o str(depth)>> ELSE <<>>)
    \o (IF depth % 2 = 1 THEN <<"api-member-hide-bullet-point">> ELSE <<>>)

headerlink(opts) ==
    Node("paragraph", <<>>,
         <<[Node("reference", <<"headerlink">>, <<>>) EXCEPT
               !.internal = TRUE, !.refid = <<opts["refid"]>>]>>)

apiMemberDefinition_type_first(opts) ==
    Node("container", <<"api-member-definition">>,
         make_div_node("api-member-bullet", << <<"-">> >>)
         \o (IF "type" \in DOMAIN opts
             THEN make_div_node("api-member-type", <<opts["type"]>>) ELSE <<>>)
         \o (IF "name" \in DOMAIN opts
             THEN make_div_node("api-member-name", <<opts["name"]>>) ELSE <<>>)
         \o (IF "annotation" \in DOMAIN opts
             THEN make_div_node("api-member-annotation", <<opts["annotation"]>>)
             ELSE <<>>)
         \o (IF "refid" \in DOMAIN opts THEN <<headerlink(opts)>> ELSE <<>>))

apiMemberDefinition(opts) ==
    Node("container", <<"api-member-definition">>,
         make_div_node("api-member-bullet", << <<"-">> >>)
         \o (IF "name" \in DOMAIN opts
             THEN make_div_node("api-member-name", <<opts["name"]>>) ELSE <<>>)
         \o (IF "type" \in DOMAIN opts
             THEN make_div_node("api-member-type", <<opts["type"]>>) ELSE <<>>)
         \o (IF "annotation" \in DOMAIN opts
             THEN make_div_node("api-member-annotation", <<opts["annotation"]>>)
             ELSE <<>>)
         \o (IF "refid" \in DOMAIN opts THEN <<headerlink(opts)>> ELSE <<>>))

apiMemberDescription(body) ==
    Node("container", <<"api-member-description">>, nested_parse(body))

apiMemberNode_always_described(opts, body, depth) ==
    Node("container", apiMemberNode_classes(depth),
         <<apiMemberDefinition(opts), apiMemberDescription(body)>>)

apiMemberNode(opts, body, depth) ==
    Node("container", apiMemberNode_classes(depth),
         <<apiMemberDefinition(opts)>>
         \o (IF Len(body) > 0 THEN <<apiMemberDescription(body)>> ELSE <<>>))

returned_entry_first(opts, body, depth, u) ==
    <<apiMemberNode(opts, body, depth)>>
    \o (IF "refid" \in DOMAIN opts THEN <<rubric(opts, u)>> ELSE <<>>)

\* The list run() returns; u is the uuid drawn when refid is set.
returned(opts, body, depth, u) ==
    (IF "refid" \in DOMAIN opts THEN <<rubric(opts, u)>> ELSE <<>>)
    \o <<apiMemberNode(opts, body, depth)>>

----------------------------------------------------------------------------
(* The state machine *)

\* The directive instance as the host constructs it for one api-member
\* block: the options converted by option_spec and the trimmed content.
Init ==
    /\ \E raw \in RawOptions : options = option_spec(raw)
    /\ content \in Contents
    /\ pc = "ready"
    /\ nodes_to_return = <<>>
    /\ exception = "none"
    /\ issued = {}
    /\ invocations = 0
    /\ prev = <<>>

\* ApiMemberDirective.run
run ==
    /\ pc = "ready"
    /\ LET depth == DepthOf(options)
       IN  IF depth = <<>>
           THEN /\ pc' = "raised"
                /\ exception' = "ValueError"
                /\ UNCHANGED <<nodes_to_return, issued>>
           ELSE /\ pc' = "returned"
                /\ UNCHANGED exception
                /\ IF "refid" \in DOMAIN options
                   THEN \E u \in uuid4(issued) :
                          /\ nodes_to_return' =
                                 returned(options, content, depth[1], u)
                          /\ issued' = issued \cup {u}
                   ELSE /\ nodes_to_return' =
                               returned(options, content, depth[1], 0)
                        /\ UNCHANGED issued
    /\ invocations' = invocations + 1
    /\ UNCHANGED <<options, content, prev>>

\* The host reaches the next occurrence of an identical block in the same
\* build and constructs a fresh directive instance for it.
NextOccurrence ==
    /\ pc = "returned"
    /\ invocations < MaxInvocations
    /\ prev' = <<nodes_to_return>>
    /\ nodes_to_return' = <<>>
    /\ pc' = "ready"
    /\ UNCHANGED <<options, content, exception, issued, invocations>>

Next == run \/ NextOccurrence

Spec == Init /\ [][Next]_vars

----------------------------------------------------------------------------
(* Properties *)

Has(seq, x) == \E i \in DOMAIN seq : seq[i] = x

Returned == pc = "returned"

\* the depth run() computed, when int() did not raise
Depth == DepthOf(options)[1]

\* positions of the entry containers in the returned list
Entries ==
    {i \in DOMAIN nodes_to_return :
        Has(nodes_to_return[i].classes, "api-member-node")}

\* positions of the hidden label nodes in the returned list
Rubrics ==
    {i \in DOMAIN nodes_to_return : nodes_to_return[i].tag = "rubric"}

HideBullet == "api-member-hide-bullet-point"

DepthClass(n) == "api-member-depth-" \o ToString(n)

\* C1: whenever run returns for an odd depth, the entry container carries
\* api-member-hide-bullet-point; for an even depth > 0 it carries
\* api-member-depth-<depth> and not api-member-hide-bullet-point.
C1_DepthParityClasses ==
    Returned =>
        /\ Entries # {}
        /\ \A i \in Entries :
              LET classes == nodes_to_return[i].classes
              IN  /\ Depth % 2 = 1 => Has(classes, HideBullet)
                  /\ (Depth > 0 /\ Depth % 2 = 0) =>
                        /\ Has(classes, DepthClass(Depth))
                        /\ ~Has(classes, HideBullet)

C1_Witness ==
    /\ Returned
    /\ Depth = 21
    /\ \E i \in Entries : Has(nodes_to_return[i].classes, HideBullet)

\* C2: whenever run returns for depth 0, given explicitly or by default, the
\* entry container's classes are exactly [api-member-node].
C2_DepthZeroNoDepthClass ==
    (Returned /\ Depth = 0) =>
        /\ Entries # {}
        /\ \A i \in Entries :
              nodes_to_return[i].classes = <<"api-member-node">>

C2_Witness ==
    /\ Returned
    /\ "depth" \in DOMAIN options
    /\ options["depth"] = <<"0">>
    /\ \E i \in Entries : nodes_to_return[i].classes = <<"api-member-node">>

C4_ReturnedList ==
    Returned =>
        IF "refid" \in DOMAIN options
        THEN /\ Len(nodes_to_return) = 2
             /\ Rubrics = {1}
             /\ Has(nodes_to_return[1].classes, "api-member-rubric-hidden")
             /\ Entries = {2}
        ELSE /\ Len(nodes_to_return) = 1
             /\ Rubrics = {}
             /\ Entries = {1}

C4_Witness ==
    /\ Returned
    /\ "refid" \in DOMAIN options
    /\ Len(nodes_to_return) = 2
    /\ nodes_to_return[1].tag = "rubric"

\* what a child of the definition container is
Kind(node) ==
    IF /\ node.tag = "paragraph"
       /\ Len(node.children) = 1
       /\ node.children[1].tag = "reference"
       /\ node.children[1].internal
       /\ Has(node.children[1].classes, "headerlink")
       /\ "refid" \in DOMAIN options
       /\ node.children[1].refid = <<options["refid"]>>
    THEN "headerlink"
    ELSE IF node.tag = "container" /\ Len(node.classes) = 1
         THEN node.classes[1]
         ELSE "other"

Present(option, kind) == IF option \in DOMAIN options THEN <<kind>> ELSE <<>>

\* C5: the definition container's children are, in order, the bullet, the
\* name sub-node iff name is present, the type sub-node iff type is present,
\* the annotation sub-node iff annotation is present and the headerlink
\* paragraph iff refid is present; an absent option never raises.
C5_DefinitionChildren ==
    /\ pc = "raised" => "depth" \in DOMAIN options
    /\ Returned =>
          /\ Entries # {}
          /\ \A i \in Entries :
                LET definition == nodes_to_return[i].children[1]
                IN  [k \in DOMAIN definition.children |->
                        Kind(definition.children[k])]
                    = <<"api-member-bullet">>
                      \o Present("name", "api-member-name")
                      \o Present("type", "api-member-type")
                      \o Present("annotation", "api-member-annotation")
                      \o Present("refid", "headerlink")

C5_Witness ==
    /\ Returned
    /\ DOMAIN options = {"name", "type", "refid"}
    /\ \E i \in Entries :
          Len(nodes_to_return[i].children[1].children) = 4

\* C6: the entry container's first child is the definition container; a
\* description container holding the parsed body is its second and last
\* child iff the content is not empty.
C6_DescriptionIffContent ==
    Returned =>
        /\ Entries # {}
        /\ \A i \in Entries :
              LET children == nodes_to_return[i].children
              IN  /\ Len(children) >= 1
                  /\ children[1].classes = <<"api-member-definition">>
                  /\ IF Len(content) > 0
                     THEN /\ Len(children) = 2
                          /\ children[2].tag = "container"
                          /\ children[2].classes = <<"api-member-description">>
                          /\ children[2].children = nested_parse(content)
                     ELSE Len(children) = 1

C6_Witness ==
    /\ Returned
    /\ Len(content) = 2
    /\ \E i \in Entries : Len(nodes_to_return[i].children) = 2

RECURSIVE StripIds(_)
StripIds(node) ==
    [node EXCEPT !.ids = <<>>,
                 !.children = [k \in DOMAIN @ |-> StripIds(@[k])]]

StripAll(nodes) == [k \in DOMAIN nodes |-> StripIds(nodes[k])]

C8_MalformedDepthIsDirectiveError ==
    pc # "ready" =>
        IF DepthOf(options) = <<>>
        THEN exception = "DirectiveError" /\ nodes_to_return = <<>>
        ELSE Returned /\ exception = "none" /\ nodes_to_return # <<>>

ExpectedFooString ==
    LET node(tag, classes, children) ==
            [tag |-> tag, classes |-> classes, ids |-> <<>>,
             internal |-> FALSE, refid |-> <<>>, text |-> <<>>,
             children |-> children]
        text(data) ==
            [tag |-> "#text", classes |-> <<>>, ids |-> <<>>,
             internal |-> FALSE, refid |-> <<>>, text |-> data,
             children |-> <<>>]
    IN  <<node("container",
               <<"api-member-node", "api-member-depth-1",
                 "api-member-hide-bullet-point">>,
               <<node("container", <<"api-member-definition">>,
                      <<node("container", <<"api-member-bullet">>,
                             <<node("bullet_list", <<>>,
                                    <<node("list_item", <<>>, <<>>)>>)>>),
                        node("container", <<"api-member-name">>,
                             <<node("paragraph", <<>>,
                                    <<text(<<"f", "o", "o">>)>>)>>),
                        node("container", <<"api-member-type">>,
                             <<node("paragraph", <<>>,
                                    <<text(<<"s", "t", "r", "i", "n", "g">>)>>)>>)
                      >>)>>)>>

IsFooString ==
    /\ DOMAIN options = {"name", "type", "depth"}
    /\ options["name"] = <<"f", "o", "o">>
    /\ options["type"] = <<"s", "t", "r", "i", "n", "g">>
    /\ options["depth"] = <<"1">>
    /\ content = <<>>

\* C9: the descriptor {name: "foo", type: "string", depth: 1} without body
\* and refid returns one entry container with the classes api-member-node,
\* api-member-depth-1 and api-member-hide-bullet-point whose only child is
\* the definition container with the bullet, name and type sub-nodes.
C9_EndToEnd ==
    (IsFooString /\ pc # "ready") =>
        /\ Returned
        /\ nodes_to_return = ExpectedFooString

C9_Witness == IsFooString /\ Returned /\ Len(nodes_to_return) = 1

\* C10: for every depth run accepts, negative ones included, the entry
\* container carries api-member-hide-bullet-point only if it also carries
\* api-member-depth-<depth>.
C10_HideBulletOnlyWhenIndented ==
    Returned =>
        \A i \in Entries :
            Has(nodes_to_return[i].classes, HideBullet) =>
                Has(nodes_to_return[i].classes, DepthClass(Depth))

====
